---- MODULE Spec2Model ----
(***************************************************************************)
(* Sitemap generation of the site template: the sitemap index handler      *)
(* (src/src/pages/sitemap.xml.ts), the sitemap-[num] handler               *)
(* (src/unnamed/part_000), the city fetcher and the city renderer          *)
(* (src/src/lib/sitemap-utils.ts) and the site configuration with its URL  *)
(* builders (second half of src/src/pages/sitemap.xml.ts).                 *)
(*                                                                         *)
(* Strings are TLA+ strings; a template literal is a concatenation.        *)
(* An optional value (undefined / null) is a sequence of length 0 or 1.    *)
(*                                                                         *)
(* Sizes.  The per-row loops of the fetcher and of the renderer are        *)
(* evaluated row by row, so the three sizes of the pagination are scaled:  *)
(*     pageSize 1000 -> 2,  maxPages 50 -> 3,  URLS_PER_SITEMAP 10000 -> 4 *)
(* The scaling keeps what the pagination depends on: a batch is smaller    *)
(* than a sitemap file and divides it, and the rows the fetcher can reach  *)
(* (maxPages * pageSize) are fewer than the rows the index can announce    *)
(* (10 * URLS_PER_SITEMAP).  The literals 1, 4 and 10 of the file count    *)
(* are the source's.                                                       *)
(***************************************************************************)
EXTENDS Integers, Sequences, FiniteSets, TLC

VARIABLES
    SITE_CONFIG_DATA,   \* the build-time block: [domain, useSubdomains]
    cachedConfig,       \* module-level cache of getSiteConfig: <<>> or <<config>>
    supabase,           \* TRUE iff the data source client exists
    cities,             \* the cities table in descending population order
    last                \* the last call of an exported operation and its outcome

vars == <<SITE_CONFIG_DATA, cachedConfig, supabase, cities, last>>

(***************************************************************************)
(* Sizes                                                                   *)
(***************************************************************************)
pageSize == 2
maxPages == 3
URLS_PER_SITEMAP == 4

\* bounds of the explored inputs
MaxRows == 7        \* longest cities table of FetchSpec
ShortRows == 1      \* longest cities table of Spec (any row odd)

(***************************************************************************)
(* String helpers (JavaScript String methods)                              *)
(***************************************************************************)
UpperChars == "ABCDEFGHIJKLMNOPQRSTUVWXYZ"
LowerChars == "abcdefghijklmnopqrstuvwxyz"
DigitChars == "0123456789"

CharAt(s, i) == SubSeq(s, i, i)

\* 1-based position of the one-character string c in s, 0 when absent
IndexOfChar(c, s) ==
    IF \E i \in 1..Len(s) : CharAt(s, i) = c
    THEN CHOOSE i \in 1..Len(s) : CharAt(s, i) = c
    ELSE 0

\* the lower-case letter of every upper-case letter
LowerOf ==
    [c \in {CharAt(UpperChars, i) : i \in 1..Len(UpperChars)} |->
        CharAt(LowerChars, IndexOfChar(c, UpperChars))]
DigitOf ==
    [c \in {CharAt(DigitChars, i) : i \in 1..Len(DigitChars)} |->
        IndexOfChar(c, DigitChars) - 1]
UpperSet == DOMAIN LowerOf
LowerSet == {CharAt(LowerChars, i) : i \in 1..Len(LowerChars)}
DigitSet == DOMAIN DigitOf

LowerChar(c) == IF c \in UpperSet THEN LowerOf[c] ELSE c

RECURSIVE toLowerCase(_)
toLowerCase(s) ==
    IF s = "" THEN "" ELSE LowerChar(Head(s)) \o toLowerCase(Tail(s))

\* String.prototype.includes
includes(s, sub) ==
    \E i \in 1..(Len(s) - Len(sub) + 1) : SubSeq(s, i, i + Len(sub) - 1) = sub

IsDigit(c) == c \in DigitSet
IsAlnum(c) == IsDigit(c) \/ c \in LowerSet

(***************************************************************************)
(* parseInt(string, 10): leading white space, an optional sign, then the   *)
(* longest run of digits; NaN when that run is empty.  Whatever follows    *)
(* the digits is ignored.                                                  *)
(***************************************************************************)
NaN == [isNaN |-> TRUE, value |-> 0]
Num(n) == [isNaN |-> FALSE, value |-> n]

RECURSIVE SkipSpace(_)
SkipSpace(s) ==
    IF s # "" /\ Head(s) = " " THEN SkipSpace(Tail(s)) ELSE s

RECURSIVE DigitRun(_, _)
\* the value of the leading digits of s appended to acc
DigitRun(s, acc) ==
    IF s # "" /\ IsDigit(Head(s))
    THEN DigitRun(Tail(s), acc * 10 + DigitOf[Head(s)])
    ELSE acc

parseInt(str) ==
    LET t == SkipSpace(str)
        neg == t # "" /\ Head(t) = "-"
        u == IF t # "" /\ (Head(t) = "-" \/ Head(t) = "+") THEN Tail(t) ELSE t
    IN IF u = "" \/ ~IsDigit(Head(u)) THEN NaN
       ELSE Num(IF neg THEN 0 - DigitRun(u, 0) ELSE DigitRun(u, 0))

(***************************************************************************)
(* Math.ceil(a / b) for integers a >= 0, b > 0                             *)
(***************************************************************************)
\* (mutant: rounds down)
FloorDiv(a, b) == a \div b

CeilDiv(a, b) == IF a % b = 0 THEN a \div b ELSE (a \div b) + 1
Max(a, b) == IF a >= b THEN a ELSE b
Min(a, b) == IF a <= b THEN a ELSE b

(***************************************************************************)
(* Site configuration (site-config, second half of sitemap.xml.ts)         *)
(***************************************************************************)
DEFAULT_CONFIG == [domain |-> "example.com"]

\* getSiteConfig: the cached value, or the build-time block with the default
\* domain in place of an empty one
getSiteConfig ==
    IF cachedConfig # <<>> THEN cachedConfig[1]
    ELSE [domain |-> IF SITE_CONFIG_DATA.domain # ""
                     THEN SITE_CONFIG_DATA.domain
                     ELSE DEFAULT_CONFIG.domain,
          useSubdomains |-> SITE_CONFIG_DATA.useSubdomains]

getDomain == getSiteConfig.domain

\* a value returned, or an Error thrown
Return(v) == [threw |-> FALSE, value |-> v]
Throw(msg) == [threw |-> TRUE, value |-> msg]

getSiteURL ==
    LET domain == getDomain
    IN IF domain = "" \/ domain = "example.com" \/ includes(domain, "example")
       THEN Throw("Domain not properly configured")
       ELSE Return("https://" \o domain)

useSubdomains ==
    LET config == getSiteConfig
    IN IF config.useSubdomains # <<>> THEN config.useSubdomains[1]
       ELSE LET domain == getDomain
            IN domain = "free-government-phone.org" \/ domain = "government-phone.org"

getStateSubdomainURL(stateAbbr) ==
    LET domain == getDomain
    IN IF ~useSubdomains
       THEN Return("https://" \o domain \o "/" \o toLowerCase(stateAbbr) \o "/")
       ELSE Return("https://" \o toLowerCase(stateAbbr) \o "." \o domain \o "/")

getCitySubdomainURL(citySlug, stateAbbr) ==
    LET domain == getDomain
    IN IF ~useSubdomains
       THEN Return("https://" \o domain \o "/" \o toLowerCase(stateAbbr) \o "/"
                   \o citySlug \o "/")
       ELSE Return("https://" \o citySlug \o "-" \o toLowerCase(stateAbbr) \o "."
                   \o domain \o "/")

(***************************************************************************)
(* createCitySlug (slug-utils): display name to URL-safe slug.  Lower      *)
(* case; every run of other characters becomes one hyphen; no hyphen at    *)
(* either end.                                                             *)
(***************************************************************************)
\* out with the character c added in its slug form
SlugStep(out, c) ==
    IF IsAlnum(c) THEN out \o c
    ELSE IF out = "" \/ CharAt(out, Len(out)) = "-" THEN out
    ELSE out \o "-"

RECURSIVE SlugChars(_, _)
SlugChars(s, out) ==
    IF s = "" THEN out
    ELSE SlugChars(Tail(s), SlugStep(out, LowerChar(Head(s))))

TrimHyphen(t) ==
    IF t # "" /\ CharAt(t, Len(t)) = "-" THEN SubSeq(t, 1, Len(t) - 1) ELSE t

createCitySlug(name) == TrimHyphen(SlugChars(name, ""))

(***************************************************************************)
(* The data source.  A row of the cities query is                          *)
(*   [name |-> string, states |-> <<>> or <<[abbreviation |-> string]>>]   *)
(* A fault is what the data source does to one request:                    *)
(*   [kind |-> "none"], or [kind |-> "error" / "throw", at |-> page]       *)
(***************************************************************************)
NoFault == [kind |-> "none", at |-> 0]

\* supabase.from('cities')...order('population', desc).range(rangeStart, rangeEnd):
\* rows rangeStart..rangeEnd of the table (0-based, both ends included)
RangeQuery(rangeStart, rangeEnd, page, fault) ==
    IF fault.kind = "throw" /\ fault.at = page
    THEN [threw |-> TRUE, error |-> FALSE, data |-> <<>>]
    ELSE IF fault.kind = "error" /\ fault.at = page
    THEN [threw |-> FALSE, error |-> TRUE, data |-> <<>>]
    ELSE [threw |-> FALSE, error |-> FALSE,
          data |-> SubSeq(cities, rangeStart + 1, Min(rangeEnd + 1, Len(cities)))]

(***************************************************************************)
(* getCitiesForSitemap (sitemap-utils.ts)                                  *)
(***************************************************************************)
\* the URL of a city as lines 53-56 and 100-103 build it
SlugUrl(citySlug, stateAbbr, useSubdomainMode, SITE_URL) ==
    IF useSubdomainMode
    THEN getCitySubdomainURL(citySlug, toLowerCase(stateAbbr)).value
    ELSE SITE_URL \o "/" \o toLowerCase(stateAbbr) \o "/" \o citySlug \o "/"

CityUrl(cityName, stateAbbr, useSubdomainMode, SITE_URL) ==
    SlugUrl(createCitySlug(cityName), stateAbbr, useSubdomainMode, SITE_URL)

\* line 49: city.states?.abbreviation || ''
AbbreviationOf(city) ==
    IF city.states # <<>> THEN city.states[1].abbreviation ELSE ""

\* (mutant: the URL is not looked up)
AddAlways(acc, cityName, stateAbbr, cityUrl) ==
    [cityUrls |-> acc.cityUrls \cup {cityUrl},
     deduplicatedCities |-> Append(acc.deduplicatedCities,
                                   [name |-> cityName, state_abbr |-> stateAbbr])]

\* lines 58-62: keep the record when its URL is new
AddIfNew(acc, cityName, stateAbbr, cityUrl) ==
    IF cityUrl \notin acc.cityUrls
    THEN [cityUrls |-> acc.cityUrls \cup {cityUrl},
          deduplicatedCities |-> Append(acc.deduplicatedCities,
                                        [name |-> cityName, state_abbr |-> stateAbbr])]
    ELSE acc

\* lines 48-62 for a row with the given name and abbreviation
ProcessNamed(acc, cityName, stateAbbr, useSubdomainMode, SITE_URL) ==
    IF cityName = "" \/ stateAbbr = "" THEN acc
    ELSE AddIfNew(acc, cityName, stateAbbr,
                  CityUrl(cityName, stateAbbr, useSubdomainMode, SITE_URL))

\* one turn of the for loop of lines 47-63; acc is [cityUrls, deduplicatedCities]
ProcessCity(acc, city, useSubdomainMode, SITE_URL) ==
    ProcessNamed(acc, city.name, AbbreviationOf(city), useSubdomainMode, SITE_URL)

RECURSIVE ProcessBatch(_, _, _, _, _)
\* the for loop of lines 47-63 from row j of data on
ProcessBatch(acc, data, j, useSubdomainMode, SITE_URL) ==
    IF j > Len(data) THEN acc
    ELSE ProcessBatch(ProcessCity(acc, data[j], useSubdomainMode, SITE_URL),
                      data, j + 1, useSubdomainMode, SITE_URL)

\* what leaves the while loop: the deduplicated records, the value of page, the
\* number of range queries issued, the fault met (if any), and whether it was thrown
LoopEnd(acc, page, fetched, hit, threw) ==
    [deduplicatedCities |-> acc.deduplicatedCities, page |-> page,
     fetched |-> fetched, hit |-> hit, threw |-> threw]

\* lines 66-68: leave the loop after this batch?
\* (mutant: a short batch does not end the loop)
StopAfterBatchNoShort(acc, data, offset, limit) ==
    Len(acc.deduplicatedCities) >= offset + limit

StopAfterBatch(acc, data, offset, limit) ==
    Len(acc.deduplicatedCities) >= offset + limit \/ Len(data) < pageSize

RECURSIVE FetchLoop(_, _, _, _, _, _, _)
\* lines 65-70, acc being the records after this page's rows
AfterBatch(acc, data, page, offset, limit, fault, useSubdomainMode, SITE_URL) ==
    IF StopAfterBatch(acc, data, offset, limit)
    THEN LoopEnd(acc, page, page + 1, NoFault, FALSE)
    ELSE FetchLoop(acc, page + 1, offset, limit, fault, useSubdomainMode, SITE_URL)

\* lines 37-70: the body of the while loop once the query of this page has ended as res
AfterQuery(res, acc, page, offset, limit, fault, useSubdomainMode, SITE_URL) ==
    IF res.threw THEN LoopEnd(acc, page, page + 1, fault, TRUE)
    ELSE IF res.error THEN LoopEnd(acc, page, page + 1, fault, FALSE)
    ELSE IF Len(res.data) = 0 THEN LoopEnd(acc, page, page + 1, NoFault, FALSE)
    ELSE AfterBatch(ProcessBatch(acc, res.data, 1, useSubdomainMode, SITE_URL),
                    res.data, page, offset, limit, fault, useSubdomainMode, SITE_URL)

\* the while loop of lines 27-71
FetchLoop(acc, page, offset, limit, fault, useSubdomainMode, SITE_URL) ==
    IF ~(Len(acc.deduplicatedCities) < offset + limit /\ page < maxPages)
    THEN LoopEnd(acc, page, page, NoFault, FALSE)
    ELSE AfterQuery(RangeQuery(page * pageSize, (page + 1) * pageSize - 1, page, fault),
                    acc, page, offset, limit, fault, useSubdomainMode, SITE_URL)

\* Array.prototype.slice(from, to) with 0 <= from <= to
slice(seq, from, to) == SubSeq(seq, from + 1, Min(to, Len(seq)))

\* lines 73-82: what the call returns once the loop has ended
\* (mutant: every call returns the head of the records)
FetchResultNoOffset(loop, offset, limit) ==
    IF loop.threw THEN <<>>
    ELSE slice(loop.deduplicatedCities, 0, limit)

FetchResult(loop, offset, limit) ==
    IF loop.threw THEN <<>>
    ELSE slice(loop.deduplicatedCities, offset, offset + limit)

\* the call: [threw, value, loop]; loop is the record of LoopEnd
getCitiesForSitemap(offset, limit, fault) ==
    LET useSubdomainMode == useSubdomains
        site == getSiteURL
        empty == [cityUrls |-> {}, deduplicatedCities |-> <<>>]
    IN IF site.threw
       THEN [threw |-> TRUE, value |-> <<>>, loop |-> LoopEnd(empty, 0, 0, NoFault, FALSE)]
       ELSE IF ~supabase
       THEN [threw |-> FALSE, value |-> <<>>, loop |-> LoopEnd(empty, 0, 0, NoFault, FALSE)]
       ELSE LET loop == FetchLoop(empty, 0, offset, limit, fault,
                                  useSubdomainMode, site.value)
            IN [threw |-> FALSE, value |-> FetchResult(loop, offset, limit), loop |-> loop]

(***************************************************************************)
(* generateCitySitemapXML (sitemap-utils.ts).  A document is its root      *)
(* element and the sequence of its entries.                                *)
(***************************************************************************)
UrlEntry(loc, lastmod, changefreq, priority) ==
    [loc |-> loc, lastmod |-> lastmod, changefreq |-> changefreq, priority |-> priority]

\* one turn of the for loop of lines 99-118; acc is [xml, cityUrls]
RenderCity(acc, city, today, useSubdomainMode, SITE_URL) ==
    LET cityUrl == CityUrl(city.name, city.state_abbr, useSubdomainMode, SITE_URL)
    IN IF cityUrl \in acc.cityUrls THEN acc
       ELSE [xml |-> Append(acc.xml, UrlEntry(cityUrl, today, "weekly", "0.8")),
             cityUrls |-> acc.cityUrls \cup {cityUrl}]

RECURSIVE CityEntries(_, _, _, _, _, _)
\* the for loop of lines 99-118 from record j on
CityEntries(acc, cityList, j, today, useSubdomainMode, SITE_URL) ==
    IF j > Len(cityList) THEN acc
    ELSE CityEntries(RenderCity(acc, cityList[j], today, useSubdomainMode, SITE_URL),
                     cityList, j + 1, today, useSubdomainMode, SITE_URL)

generateCitySitemapXML(cityList, today) ==
    LET site == getSiteURL
    IN IF site.threw THEN Throw(site.value)
       ELSE Return([root |-> "urlset",
                    entries |-> CityEntries([xml |-> <<>>, cityUrls |-> {}], cityList, 1,
                                            today, useSubdomains, site.value).xml])

(***************************************************************************)
(* HTTP responses.  A handler ends with a Response or with an exception    *)
(* that leaves it.                                                         *)
(***************************************************************************)
XmlResponse(xml) ==
    [ended |-> "response", status |-> 200, contentType |-> "application/xml",
     cacheControl |-> "public, max-age=3600", body |-> xml]

TextResponse(text, status) ==
    [ended |-> "response", status |-> status, contentType |-> "text/plain",
     cacheControl |-> "", body |-> [root |-> "text", entries |-> <<text>>]]

Uncaught(msg) ==
    [ended |-> "exception", status |-> 0, contentType |-> "",
     cacheControl |-> "", body |-> [root |-> "text", entries |-> <<msg>>]]

(***************************************************************************)
(* GET /sitemap.xml (sitemap.xml.ts, lines 6-62)                           *)
(* The count query ends as [threw, count]: count is <<>> (null) or <<n>>.  *)
(***************************************************************************)
SitemapEntry(loc, lastmod) == [loc |-> loc, lastmod |-> lastmod]

\* lines 26-28
\* (mutant: the lower clamp forgotten)
ClampCountNoMin(count) ==
    Min(CeilDiv(count, URLS_PER_SITEMAP), 10)

ClampCount(count) ==
    Max(1, Min(CeilDiv(count, URLS_PER_SITEMAP), 10))

\* lines 14-33: the value of citySitemapCount when the document is built
\* (mutant: the default is the minimum, not 4)
CitySitemapCountNoDefault(query) ==
    IF ~supabase \/ query.threw \/ query.count = <<>> THEN 1
    ELSE ClampCount(query.count[1])

CitySitemapCount(query) ==
    IF ~supabase THEN 4
    ELSE IF query.threw THEN 4
    ELSE IF query.count # <<>> THEN ClampCount(query.count[1])
    ELSE 4

RECURSIVE IndexLoopShort(_, _, _, _, _)
\* (mutant: the loop ends one file early)
IndexLoopShort(xml, i, citySitemapCount, SITE_URL, today) ==
    IF ~(i <= citySitemapCount) THEN xml
    ELSE IndexLoopShort(Append(xml, SitemapEntry(SITE_URL \o "/sitemap-" \o ToString(i) \o ".xml",
                                                 today)),
                        i + 1, citySitemapCount, SITE_URL, today)

RECURSIVE IndexLoop(_, _, _, _, _)
\* the for loop of lines 46-52 from i on
IndexLoop(xml, i, citySitemapCount, SITE_URL, today) ==
    IF ~(i <= citySitemapCount + 1) THEN xml
    ELSE IndexLoop(Append(xml, SitemapEntry(SITE_URL \o "/sitemap-" \o ToString(i) \o ".xml",
                                            today)),
                   i + 1, citySitemapCount, SITE_URL, today)

\* [out, info]: the handler's end and the value of citySitemapCount
IndexGET(query, today) ==
    LET site == getSiteURL
    IN IF site.threw
       THEN [out |-> Uncaught(site.value), info |-> [citySitemapCount |-> 4]]
       ELSE LET SITE_URL == site.value
                citySitemapCount == CitySitemapCount(query)
                head == <<SitemapEntry(SITE_URL \o "/sitemap-main.xml", today)>>
            IN [out |-> XmlResponse([root |-> "sitemapindex",
                                     entries |-> IndexLoop(head, 2, citySitemapCount,
                                                           SITE_URL, today)]),
                info |-> [citySitemapCount |-> citySitemapCount]]

(***************************************************************************)
(* GET /sitemap-[num].xml (part_000)                                       *)
(* params.num is <<>> (undefined) or <<string>>.                           *)
(***************************************************************************)
staticPages ==
    <<"", "/eligibility", "/programs", "/providers", "/faq", "/contact", "/apply",
      "/lifeline-program", "/acp-program", "/tribal-programs", "/state-programs",
      "/emergency-broadband", "/free-government-phone-near-me", "/states">>

\* the states table, ordered by name
StatesTable ==
    <<[name |-> "New Jersey", abbreviation |-> "NJ"],
      [name |-> "Ohio", abbreviation |-> "OH"]>>

\* lines 35-46: the states query ends "ok", "null" (no data) or "throw"
FetchStates(statesEnd) ==
    IF supabase /\ statesEnd = "ok" THEN StatesTable ELSE <<>>

StaticEntry(page, SITE_URL, today) ==
    UrlEntry(SITE_URL \o page \o "/", today,
             IF page = "" THEN "weekly" ELSE "monthly",
             IF page = "" THEN "1.0" ELSE "0.8")

StateEntry(state, SITE_URL, today) ==
    UrlEntry(IF useSubdomains
             THEN getStateSubdomainURL(toLowerCase(state.abbreviation)).value
             ELSE SITE_URL \o "/" \o toLowerCase(state.abbreviation) \o "/",
             today, "weekly", "0.7")

\* lines 15-86
MainSitemap(statesEnd, SITE_URL, today) ==
    LET states == FetchStates(statesEnd)
    IN XmlResponse([root |-> "urlset",
                    entries |-> [k \in 1..Len(staticPages) |->
                                    StaticEntry(staticPages[k], SITE_URL, today)]
                                \o [k \in 1..Len(states) |->
                                    StateEntry(states[k], SITE_URL, today)]])

\* line 89: parseInt(num || '2', 10)
SitemapNum(num) ==
    parseInt(IF num = <<>> \/ num[1] = "" THEN "2" ELSE num[1])

NoFetch ==
    [threw |-> FALSE, value |-> <<>>,
     loop |-> LoopEnd([cityUrls |-> {}, deduplicatedCities |-> <<>>], 0, 0, NoFault, FALSE)]

\* lines 95-111: [out, info]; info keeps sitemapNum, offset and the fetcher's call
CityChunk(sitemapNum, today, fault) ==
    LET offset == (sitemapNum - 2) * URLS_PER_SITEMAP
        fetch == getCitiesForSitemap(offset, URLS_PER_SITEMAP, fault)
        xml == generateCitySitemapXML(fetch.value, today)
    IN [out |-> IF fetch.threw \/ xml.threw
                THEN TextResponse("Error generating sitemap", 500)
                ELSE XmlResponse(xml.value),
        info |-> [sitemapNum |-> sitemapNum, offset |-> offset,
                  limit |-> URLS_PER_SITEMAP, fetch |-> fetch]]

NoChunk == [sitemapNum |-> 0, offset |-> 0, limit |-> 0, fetch |-> NoFetch]

ChunkGET(num, today, fault, statesEnd) ==
    LET site == getSiteURL
    IN IF site.threw THEN [out |-> Uncaught(site.value), info |-> NoChunk]
       ELSE IF num = <<"main">>
       THEN [out |-> MainSitemap(statesEnd, site.value, today), info |-> NoChunk]
       ELSE LET sitemapNum == SitemapNum(num)
            IN IF sitemapNum.isNaN \/ sitemapNum.value < 2
               THEN [out |-> TextResponse("Invalid sitemap number", 404), info |-> NoChunk]
               ELSE CityChunk(sitemapNum.value, today, fault)

(***************************************************************************)
(* The explored inputs                                                     *)
(***************************************************************************)
\* new Date().toISOString().split('T')[0] on the day of the run
Today == "2026-11-01"

\* the city of rank i when nothing is odd about row i
CityName(i) == "St " \o ToString(i)
AltName(i) == "ST." \o ToString(i)
StateOf(i) == IF i % 2 = 1 THEN "NJ" ELSE "OH"
Row(name, abbr) == [name |-> name, states |-> <<[abbreviation |-> abbr]>>]
FreshRow(i) == Row(CityName(i), StateOf(i))

\* the odd rows of rank i: the very record of an earlier rank; another
\* spelling of a city of rank <= i (a different record with the same URL); the
\* name of the city before it in the other state; a row without a name; a row
\* whose state is missing
OddRows(i) ==
    {FreshRow(j) : j \in 1..(i - 1)}
    \cup {Row(AltName(j), toLowerCase(StateOf(j))) : j \in 1..i}
    \cup {Row(CityName(j), StateOf(j + 1)) : j \in (i - 1)..(i - 1) \cap 1..i}
    \cup {Row("", StateOf(i)), [name |-> CityName(i), states |-> <<>>]}

RECURSIVE TablesOf(_, _)
\* the tables of n rows of which at most odd are odd
TablesOf(n, odd) ==
    IF n = 0 THEN {<<>>}
    ELSE {Append(t, FreshRow(n)) : t \in TablesOf(n - 1, odd)}
         \cup (IF odd = 0 THEN {}
               ELSE {Append(t[1], t[2]) : t \in TablesOf(n - 1, odd - 1) \X OddRows(n)})

\* at most one odd row, or two in a table shorter than MaxRows
Tables ==
    UNION ({TablesOf(n, 1) : n \in 0..MaxRows} \cup {TablesOf(n, 2) : n \in 0..(MaxRows - 1)})
ShortTables == UNION {TablesOf(n, n) : n \in 0..ShortRows}

Domains == {"", "example.com", "my-example.net", "phones.org", "free-government-phone.org"}
Configs == [domain : Domains, useSubdomains : {<<>>, <<TRUE>>, <<FALSE>>}]
\* a site deployed with its own domain, in path mode and in subdomain mode
DeployedConfigs ==
    {[domain |-> "phones.org", useSubdomains |-> <<>>],
     [domain |-> "free-government-phone.org", useSubdomains |-> <<>>]}

NoQuery == [threw |-> FALSE, count |-> <<>>]
CountValues ==
    {0, 1, URLS_PER_SITEMAP - 1, URLS_PER_SITEMAP, URLS_PER_SITEMAP + 1,
     4 * URLS_PER_SITEMAP, 4 * URLS_PER_SITEMAP + URLS_PER_SITEMAP \div 2,
     10 * URLS_PER_SITEMAP, 10 * URLS_PER_SITEMAP + 1, 100 * URLS_PER_SITEMAP}
    \cup {Len(cities)}
CountEnds ==
    IF ~supabase THEN {NoQuery}
    ELSE {[threw |-> TRUE, count |-> <<>>], NoQuery}
         \cup {[threw |-> FALSE, count |-> <<n>>] : n \in CountValues}

Faults ==
    IF ~supabase THEN {NoFault}
    ELSE {NoFault} \cup [kind : {"error", "throw"}, at : 0..(maxPages - 1)]

\* the data source is asked for states only under 'main'; its faults on the
\* cities query are explored under the plain numbers
FaultsFor(num) ==
    IF num \in {<<"2">>, <<"3">>, <<"4">>} THEN Faults ELSE {NoFault}
StatesEndsFor(num) ==
    IF num = <<"main">> /\ supabase THEN {"ok", "null", "throw"} ELSE {"ok"}

NumParams ==
    {<<>>, <<"">>, <<"main">>, <<"2">>, <<"3">>, <<"4">>, <<"0">>, <<"1">>, <<"-3">>,
     <<"abc">>, <<"2abc">>, <<"3.5">>}

(***************************************************************************)
(* The state machine: one action per exported operation                    *)
(***************************************************************************)
NoCall == [op |-> "none", req |-> <<>>, out |-> <<>>, info |-> <<>>]

\* any build of the site, with or without a data source client, over a short table
Init ==
    /\ SITE_CONFIG_DATA \in Configs
    /\ cachedConfig = <<>>
    /\ supabase \in BOOLEAN
    /\ cities \in ShortTables
    /\ last = NoCall

\* a deployed site with its data source, over any table of up to MaxRows rows
FetchInit ==
    /\ SITE_CONFIG_DATA \in DeployedConfigs
    /\ cachedConfig = <<>>
    /\ supabase = TRUE
    /\ cities \in Tables
    /\ last = NoCall

Called(op, req, out, info) ==
    /\ last' = [op |-> op, req |-> req, out |-> out, info |-> info]
    /\ cachedConfig' = <<getSiteConfig>>
    /\ UNCHANGED <<SITE_CONFIG_DATA, supabase, cities>>

SitemapIndex ==
    \E query \in CountEnds :
        LET r == IndexGET(query, Today)
        IN Called("index", [query |-> query, today |-> Today], r.out, r.info)

SitemapChunk ==
    \E num \in NumParams :
        \E fault \in FaultsFor(num), statesEnd \in StatesEndsFor(num) :
            LET r == ChunkGET(num, Today, fault, statesEnd)
            IN Called("chunk", [num |-> num, today |-> Today], r.out, r.info)

\* getCitiesForSitemap called by another module
CallGetCitiesForSitemap ==
    \E offset \in {0, 1, 5}, limit \in {1, 3}, fault \in Faults :
        /\ fault.kind = "none" \/ fault.at = 1
        /\ LET fetch == getCitiesForSitemap(offset, limit, fault)
           IN Called("getCitiesForSitemap", [offset |-> offset, limit |-> limit],
                     IF fetch.threw THEN Throw("Domain not properly configured")
                     ELSE Return(fetch.value),
                     [sitemapNum |-> 0, offset |-> offset, limit |-> limit, fetch |-> fetch])

CallGetSiteURL ==
    Called("getSiteURL", <<>>, getSiteURL, <<>>)

CallGetStateSubdomainURL ==
    \E stateAbbr \in {"NJ", "oh"} :
        Called("getStateSubdomainURL", <<stateAbbr>>, getStateSubdomainURL(stateAbbr), <<>>)

CallGetCitySubdomainURL ==
    \E stateAbbr \in {"NJ", "oh"} :
        Called("getCitySubdomainURL", <<"town-1", stateAbbr>>,
               getCitySubdomainURL("town-1", stateAbbr), <<>>)

Next ==
    \/ SitemapIndex
    \/ SitemapChunk
    \/ CallGetCitiesForSitemap
    \/ CallGetSiteURL
    \/ CallGetStateSubdomainURL
    \/ CallGetCitySubdomainURL

\* any sequence of calls
Spec == Init /\ [][Next]_vars

\* the first call a process serves
Fresh == last = NoCall
FirstCall ==
    \/ Fresh /\ SitemapIndex
    \/ Fresh /\ SitemapChunk
    \/ Fresh /\ CallGetCitiesForSitemap
    \/ Fresh /\ CallGetSiteURL
    \/ Fresh /\ CallGetStateSubdomainURL
    \/ Fresh /\ CallGetCitySubdomainURL
FetchSpec == FetchInit /\ [][FirstCall]_vars

(***************************************************************************)
(* Properties                                                              *)
(***************************************************************************)
Seq2Set(q) == {q[k] : k \in 1..Len(q)}
NoRepeat(q) == \A a, b \in 1..Len(q) : q[a] = q[b] => a = b

\* the domain of the build is unset or a placeholder
PlaceholderDomain ==
    \/ SITE_CONFIG_DATA.domain = ""
    \/ SITE_CONFIG_DATA.domain = "example.com"
    \/ includes(SITE_CONFIG_DATA.domain, "example")

IndexServed == last.op = "index" /\ last.out.ended = "response"
CountFailed == ~supabase \/ last.req.query.threw \/ last.req.query.count = <<>>

\* the least k with k * d >= n
CeilOf(n, d) == CHOOSE k \in 0..n : k * d >= n /\ \A m \in 0..(k - 1) : m * d < n
EstimateFileCount(totalRows) == Min(10, Max(1, CeilOf(totalRows, URLS_PER_SITEMAP)))

\* C4: whatever the count query does, the index is built from a number of city
\* sitemap files within [1, 10], and lists that many files after sitemap-main.
C4_FileCountInRange ==
    IndexServed =>
        /\ last.info.citySitemapCount \in 1..10
        /\ Len(last.out.body.entries) - 1 = last.info.citySitemapCount

C4_Witness ==
    /\ IndexServed /\ ~CountFailed
    /\ last.req.query.count[1] = 0
    /\ last.info.citySitemapCount = 1

\* C5: with a count of totalRows the file count is
\* min(10, max(1, ceil(totalRows / URLS_PER_SITEMAP))): 4 for four full files, 5
\* for four and a half, 1 for none and 10 for a hundred; and of two index
\* requests in a row the one with the larger count has no fewer files.
C5_State ==
    (IndexServed /\ ~CountFailed) =>
        LET totalRows == last.req.query.count[1]
            files == last.info.citySitemapCount
        IN /\ files = EstimateFileCount(totalRows)
           /\ totalRows = 4 * URLS_PER_SITEMAP => files = 4
           /\ totalRows = 4 * URLS_PER_SITEMAP + URLS_PER_SITEMAP \div 2 => files = 5
           /\ totalRows = 0 => files = 1
           /\ totalRows = 100 * URLS_PER_SITEMAP => files = 10

C5_Step ==
    (/\ IndexServed /\ ~CountFailed
     /\ IndexServed' /\ ~CountFailed'
     /\ last.req.query.count[1] <= last'.req.query.count[1])
        => last.info.citySitemapCount <= last'.info.citySitemapCount

C5_FileCountFormula == [] C5_State /\ [][C5_Step]_vars

C5_Witness ==
    /\ IndexServed /\ ~CountFailed
    /\ last.req.query.count[1] = 4 * URLS_PER_SITEMAP + URLS_PER_SITEMAP \div 2
    /\ last.info.citySitemapCount = 5

\* C6: when the count cannot be had (no client, the query throws, a null
\* count) the index is built for the default of 4 files and is served.
C6_DefaultOnFailure ==
    (last.op = "index" /\ CountFailed /\ ~PlaceholderDomain) =>
        /\ last.out.ended = "response"
        /\ last.out.status = 200
        /\ last.info.citySitemapCount = 4
        /\ Len(last.out.body.entries) = 5

C6_Witness ==
    /\ IndexServed /\ supabase /\ last.req.query.threw
    /\ last.info.citySitemapCount = 4

\* C10: the index lists sitemap-main.xml and then sitemap-N.xml for N = 2 ..
\* count + 1 in ascending order and nothing else, all with one lastmod.
C10_IndexEntries ==
    IndexServed =>
        LET c == last.info.citySitemapCount
            e == last.out.body.entries
            SITE_URL == "https://" \o SITE_CONFIG_DATA.domain
        IN /\ last.out.body.root = "sitemapindex"
           /\ Len(e) = c + 1
           /\ e[1].loc = SITE_URL \o "/sitemap-main.xml"
           /\ \A N \in 2..(c + 1) : e[N].loc = SITE_URL \o "/sitemap-" \o ToString(N) \o ".xml"
           /\ \A k \in 1..Len(e) : e[k].lastmod = e[1].lastmod /\ e[k].lastmod = last.req.today

C10_Witness ==
    /\ IndexServed /\ ~CountFailed
    /\ last.info.citySitemapCount = 5
    /\ Len(last.out.body.entries) = 6

\* a chunk identifier that is the decimal numeral of an integer >= 2
ValidChunkId(num) == num # <<>> /\ \E n \in 2..99 : num[1] = ToString(n)

\* C8: on a deployed domain, an identifier other than 'main' that is not a
\* valid integer >= 2 (text, empty, missing, digits followed by other
\* characters, a fraction, an integer below 2) is answered 404 in plain text.
C8_InvalidIdIs404 ==
    (/\ last.op = "chunk" /\ ~PlaceholderDomain
     /\ last.req.num # <<"main">> /\ ~ValidChunkId(last.req.num)) =>
        /\ last.out.ended = "response"
        /\ last.out.status = 404
        /\ last.out.contentType = "text/plain"

\* C9: with the domain unset or a placeholder every URL-construction operation
\* raises and produces no URL, and no handler emits a document.
C9_PlaceholderRefused ==
    PlaceholderDomain =>
        /\ last.op \in {"getSiteURL", "getStateSubdomainURL", "getCitySubdomainURL"}
              => last.out.threw
        /\ last.op = "getCitiesForSitemap" => last.out.threw
        /\ last.op \in {"index", "chunk"} => last.out.ended = "exception"

(***************************************************************************)
(* Properties of the fetcher and of the city chunks                        *)
(***************************************************************************)
\* the last call ran getCitiesForSitemap (directly, or from the chunk handler)
FetchCalled ==
    /\ last.op \in {"chunk", "getCitiesForSitemap"}
    /\ last.info.limit > 0

\* a row the fetcher does not skip, and its canonical URL
ValidRow(row) == row.name # "" /\ AbbreviationOf(row) # ""
RowUrl(row) == CityUrl(row.name, AbbreviationOf(row), useSubdomains, getSiteURL.value)
RecordUrl(rec) == CityUrl(rec.name, rec.state_abbr, useSubdomains, getSiteURL.value)
RecordOf(row) == [name |-> row.name, state_abbr |-> AbbreviationOf(row)]

\* the records of the valid rows of rows whose URL no earlier valid row has
FirstOccurrences(rows) ==
    LET first(i) ==
            /\ ValidRow(rows[i])
            /\ \A j \in 1..(i - 1) : ValidRow(rows[j]) => RowUrl(rows[j]) # RowUrl(rows[i])
        F[i \in 0..Len(rows)] ==
            IF i = 0 THEN <<>>
            ELSE IF first(i) THEN Append(F[i - 1], RecordOf(rows[i]))
            ELSE F[i - 1]
    IN F[Len(rows)]

Locs(entries) == [k \in 1..Len(entries) |-> entries[k].loc]

\* the <loc> values of the document served for chunk M when nothing fails
DocLocs(M) == Locs(ChunkGET(<<ToString(M)>>, Today, NoFault, "ok").out.body.entries)

RECURSIVE Embeds(_, _, _, _)
\* records i.. of res are, in this order, the records of some of the rows j.. of src
Embeds(res, i, src, j) ==
    IF i > Len(res) THEN TRUE
    ELSE IF j > Len(src) THEN FALSE
    ELSE IF RecordOf(src[j]) = res[i] THEN Embeds(res, i + 1, src, j + 1)
    ELSE Embeds(res, i, src, j + 1)

\* C2: the result of getCitiesForSitemap holds no two records with the same
\* canonical URL, and its records are rows of the source in the source's order.
C2_NoDuplicateInOrder ==
    FetchCalled =>
        LET value == last.info.fetch.value
        IN /\ \A a, b \in 1..Len(value) :
                  RecordUrl(value[a]) = RecordUrl(value[b]) => a = b
           /\ Embeds(value, 1, cities, 1)

\* a call that returned two records or more after reading two rows of one URL
C2_Witness ==
    /\ FetchCalled
    /\ Len(last.info.fetch.value) >= 2
    /\ \E a, b \in 1..Min(Len(cities), last.info.fetch.loop.fetched * pageSize) :
          /\ a < b /\ ValidRow(cities[a]) /\ ValidRow(cities[b])
          /\ RowUrl(cities[a]) = RowUrl(cities[b])

\* the last call served the city document of a chunk
CityDocServed ==
    /\ last.op = "chunk" /\ last.out.ended = "response" /\ last.out.status = 200
    /\ last.info.limit > 0

\* the chunk numbers whose offset the fetcher can reach, and one beyond
ChunkNumbers == 2..(2 + CeilDiv(maxPages * pageSize, URLS_PER_SITEMAP))

\* C3: a URL is emitted at most once across the city chunk documents: never
\* twice in the document served, and never in the document of another chunk.
C3_UrlOnceAcrossChunks ==
    CityDocServed =>
        LET locs == Locs(last.out.body.entries)
        IN /\ NoRepeat(locs)
           /\ \A M \in ChunkNumbers \ {last.info.sitemapNum} :
                  Seq2Set(locs) \cap Seq2Set(DocLocs(M)) = {}

\* chunk 3 served with entries, over a table in which two different rows on
\* either side of the chunk boundary (so in different batches) have one URL
C3_Witness ==
    /\ CityDocServed
    /\ last.info.sitemapNum = 3
    /\ Len(last.out.body.entries) > 0
    /\ \E a \in 1..URLS_PER_SITEMAP, b \in (URLS_PER_SITEMAP + 1)..Len(cities) :
          /\ ValidRow(cities[a]) /\ ValidRow(cities[b])
          /\ cities[a] # cities[b]
          /\ RowUrl(cities[a]) = RowUrl(cities[b])

\* C7: when the query of batch k fails, as an error result or as an exception,
\* no further batch is fetched and the call returns the slice of the records
\* deduplicated from batches 0..k-1 without raising; an empty source yields
\* an empty sequence.
C7_PartialOnError ==
    FetchCalled =>
        LET fetch == last.info.fetch
            k == fetch.loop.hit.at
        IN /\ fetch.loop.hit.kind \in {"error", "throw"} =>
                 /\ ~fetch.threw
                 /\ fetch.loop.fetched = k + 1
                 /\ fetch.value =
                        slice(FirstOccurrences(SubSeq(cities, 1, Min(k * pageSize, Len(cities)))),
                              last.info.offset, last.info.offset + last.info.limit)
           /\ cities = <<>> => (~fetch.threw /\ fetch.value = <<>>)

\* the number of city files the index announces for the table
FileCountOf(rows) == CitySitemapCount([threw |-> FALSE, count |-> <<Len(rows)>>])

RECURSIVE ConcatDocs(_, _)
\* the <loc> values of the documents of chunks M .. upTo, one after the other
ConcatDocs(M, upTo) ==
    IF M > upTo THEN <<>> ELSE DocLocs(M) \o ConcatDocs(M + 1, upTo)

\* C1: over an error-free source, the <loc> values of the documents of chunks
\* 2 .. fileCount + 1, concatenated, are the deduplicated URLs of the source:
\* each of them once, none missing.
C1_RoundTrip ==
    (/\ CityDocServed
     /\ last.info.fetch.loop.hit = NoFault
     /\ last.info.sitemapNum \in 2..(FileCountOf(cities) + 1)) =>
        LET fileCount == FileCountOf(cities)
            all == FirstOccurrences(cities)
            N == last.info.sitemapNum
            served == ConcatDocs(2, N - 1) \o Locs(last.out.body.entries)
                          \o ConcatDocs(N + 1, fileCount + 1)
        IN served = [k \in 1..Len(all) |-> RecordUrl(all[k])]

\* C11: a call of getCitiesForSitemap issues at most maxPages range queries.
\* Batch k + 1 is fetched only if k + 1 < maxPages, batch k came back full
\* and without error, and the records deduplicated through batch k are fewer
\* than offset + limit.  Batch k covers the raw rows k * pageSize ..
\* k * pageSize + pageSize - 1: the records held when the loop ends are those
\* of the first pageSize rows per batch that came back.
C11_BoundedBatches ==
    FetchCalled =>
        LET loop == last.info.fetch.loop
            fetched == loop.fetched
            answered == IF loop.hit.kind = "none" THEN fetched ELSE fetched - 1
        IN /\ fetched <= maxPages
           /\ \A k \in 0..(fetched - 2) :
                  /\ k + 1 < maxPages
                  /\ Len(cities) >= (k + 1) * pageSize
                  /\ loop.hit.kind # "none" => loop.hit.at # k
                  /\ Len(FirstOccurrences(SubSeq(cities, 1, (k + 1) * pageSize)))
                         < last.info.offset + last.info.limit
           /\ loop.deduplicatedCities =
                  FirstOccurrences(SubSeq(cities, 1, Min(answered * pageSize, Len(cities))))

\* a call that ran into the cap: maxPages full batches, none failing, and
\* still fewer records than offset + limit
C11_Witness ==
    /\ FetchCalled
    /\ last.info.fetch.loop.fetched = maxPages
    /\ last.info.fetch.loop.hit = NoFault
    /\ Len(cities) > maxPages * pageSize
    /\ Len(last.info.fetch.loop.deduplicatedCities) < last.info.offset + last.info.limit

====
